---- MODULE Spec2Model ----
(***************************************************************************)
(* ellycache: a scheduled-refresh query cache.  cron triggers start one    *)
(* goroutine per firing (Job.Run), which runs the query (makeResult,       *)
(* query), builds an EndpointResult and swaps it into the sync.Map cache;  *)
(* httpHandler goroutines load an entry and serve it, from memory or from  *)
(* an encrypted temporary file.                                            *)
(*                                                                         *)
(* Strings are modelled as tuples (the empty string is <<>>), pointers to  *)
(* EndpointResult as indices into results (0 is nil), file names as        *)
(* numbers (0 is the empty name).                                          *)
(***************************************************************************)
EXTENDS Integers, Sequences, FiniteSets, TLC

\* ---------------------------------------------------------------- bounds
MaxTriggers == 3      \* cron firings modelled (each starts one Job.Run)
MaxReqs == 1          \* concurrent httpHandler goroutines
NumFiles == 2         \* names os.CreateTemp can draw from
MaxTime == 3          \* clock ticks modelled
MaxLag == 0           \* ticks a due firing can be late by
NumRowValues == 1     \* distinct rows the database can return
MaxRows == 1          \* rows of a query result

\* ------------------------------------------------------------ the config
\* the endpoint blocks of the config file, in their order: Validate accepts
\* a path of plain and {name} segments, and the path "/"
EndpointList == <<"/a", "/">>

Endpoints == {EndpointList[i] : i \in 1..Len(EndpointList)}

\* ----------------------------------------------------------------- state
VARIABLES
  proc,       \* the process: "up" while realmain serves, "stopping" once
              \* ListenAndServe has returned, "exited" when it is gone
  fileBacked, \* the config: EndpointConfig.FileBacked, per endpoint
  schedule,   \* the config: EndpointConfig.Schedule, per endpoint
  now,        \* time.Now(), in seconds
  nextFire,   \* crond.Entry(id).Next, per endpoint
  ntrig,      \* cron firings so far; firing t runs as goroutine t
  job,        \* job[t]: the locals and position of the t-th Job.Run (rows:
              \* what its query returned, kept for the properties)
  results,    \* the EndpointResult objects, by pointer (index)
  cache,      \* the sync.Map: path -> pointer, 0 when the key is absent
  disk,       \* the temp directory: name -> content, NoFile when absent
  req,        \* req[r]: the locals, position and response of a handler
  applied,    \* history: per path, the runs in the order they hit the cache
  removals    \* history: per result, the os.Remove calls that deleted its file

vars == <<proc, fileBacked, schedule, now, nextFire, ntrig, job, results, cache, disk, req, applied, removals>>

FileBacked(e) == fileBacked[e]

Runs == 1..MaxTriggers
Reqs == 1..MaxReqs
FileNames == 1..NumFiles
NoFile == <<"nofile">>

\* ------------------------------------------------- query(): rows to bytes
RowValues == 1..NumRowValues

RECURSIVE SeqsUpTo(_)
SeqsUpTo(n) ==
  IF n = 0 THEN {<<>>}
  ELSE LET S == SeqsUpTo(n - 1)
       IN S \cup {Append(s, v) : s \in {x \in S : Len(x) = n - 1}, v \in RowValues}

QueryResults == SeqsUpTo(MaxRows)

\* json.Marshal(row)
Marshal(row) == <<"row", row>>

\* what query() has written to w after k rows, the closing lines excluded
RECURSIVE WrittenRows(_, _)
WrittenRows(rows, k) ==
  IF k = 0 THEN <<"[">>
  ELSE WrittenRows(rows, k - 1)
         \o (IF k = 1 THEN <<>> ELSE <<",">>)
         \o <<"  ", Marshal(rows[k])>>

\* the complete output of a successful query()
Serialize(rows) == WrittenRows(rows, Len(rows)) \o <<"\n", "]">>

\* digest.Write(j) for every row, then Sum64: a hash without collisions
RECURSIVE Digest(_)
Digest(rows) ==
  IF rows = <<>> THEN <<>>
  ELSE Digest(SubSeq(rows, 1, Len(rows) - 1)) \o <<Marshal(rows[Len(rows)])>>

\* fmt.Sprintf(`W/"%x"`, h)
MakeETag(h) == <<"W/", h>>

\* ---------------------------------------------------------- symmecrypt
Encrypt(b) == <<"aes-gcm", b>>

CanDecrypt(c) == Len(c) = 2 /\ c[1] = "aes-gcm"

Decrypt(c) == c[2]

\* a write that failed part way: not a valid ciphertext
Truncated == <<"truncated">>

\* ----------------------------------------------------- EndpointResult
NilResult ==
  [ETag |-> <<>>, QueriedAt |-> <<>>, CacheControl |-> <<>>,
   Result |-> <<>>, File |-> 0]

\* time.Now().Truncate(time.Second).In(time.UTC).Format(http.TimeFormat)
FormatTime(t) == <<"date", t>>

\* fmt.Sprintf("max-age=%d, immutable", int(Next.Sub(time.Now()).Seconds()))
MaxAge(next, t) == <<"max-age", next - t, "immutable">>

NoCache == <<"no-cache, no-store">>

\* ------------------------------------------------------------------ cron
\* the schedules of the model: one fires at every tick of the clock, the
\* other does not fire in the time modelled
Schedules == {"every", "later"}

\* schedule.Next(t): the first firing time after t
ScheduleNext(sch, t) ==
  IF sch = "every" THEN t + 1 ELSE MaxTime + MaxLag + 1

\* ------------------------------------------------------------------ Init
\* the configurations modelled: the first endpoint fires at every tick, on
\* its own or beside the second (whose storage mode matters only then)
Modelled(fb, sch) ==
  /\ sch[EndpointList[1]] = "every"
  /\ \A e \in Endpoints : sch[e] = "later" => ~fb[e]

IdleJob ==
  [pc |-> "idle", ep |-> "", file |-> 0, rows |-> <<>>, err |-> FALSE, old |-> 0]

NoResponse ==
  [code |-> 0, status |-> 0, ETag |-> <<>>, LastModified |-> <<>>,
   CacheControl |-> <<>>, ContentType |-> <<>>, body |-> <<>>]

IdleReq ==
  [pc |-> "idle", url |-> "", inm |-> <<>>, result |-> 0, plain |-> <<>>,
   fault |-> "none", resp |-> NoResponse]

Init ==
  /\ proc = "up"
  /\ fileBacked \in [Endpoints -> BOOLEAN]
  /\ schedule \in [Endpoints -> Schedules]
  /\ Modelled(fileBacked, schedule)
  /\ now = 0
  /\ nextFire = [e \in Endpoints |-> ScheduleNext(schedule[e], 0)]
  /\ ntrig = 0
  /\ job = [t \in Runs |-> IdleJob]
  /\ results = [t \in Runs |-> NilResult]
  /\ cache = [e \in Endpoints |-> 0]
  /\ disk = [f \in FileNames |-> NoFile]
  /\ req = [r \in Reqs |-> IdleReq]
  /\ applied = [e \in Endpoints |-> <<>>]
  /\ removals = [t \in Runs |-> 0]

\* ------------------------------------------------------------- the clock
\* cron's timer: a firing that is due happens at most MaxLag ticks late
Overdue(e) == nextFire[e] + MaxLag <= now

Tick ==
  /\ now < MaxTime
  /\ \A e \in Endpoints : ~Overdue(e)
  /\ now' = now + 1
  /\ UNCHANGED <<proc, fileBacked, schedule, nextFire, ntrig, job, results, cache, disk, req, applied, removals>>

\* cron.New() has no job wrapper: a firing starts j.Run() in a goroutine of
\* its own, whether or not an earlier run of the same job has returned.
StartJob(e) == TRUE

\* the entries that are due, which the run loop walks in their order
Due(e) == nextFire[e] <= now

Position(e) == CHOOSE i \in 1..Len(EndpointList) : EndpointList[i] = e

FirstDue(e) == Due(e) /\ \A d \in Endpoints : Due(d) => Position(e) <= Position(d)

\* the run loop: e.Next has come; go j.Run(); e.Next = e.Schedule.Next(now)
Trigger(e) ==
  /\ ntrig < MaxTriggers
  /\ FirstDue(e)
  /\ StartJob(e)
  /\ ntrig' = ntrig + 1
  /\ nextFire' = [nextFire EXCEPT ![e] = ScheduleNext(schedule[e], now)]
  /\ job' = [job EXCEPT ![ntrig + 1] = [IdleJob EXCEPT !.pc = "make", !.ep = e]]
  /\ UNCHANGED <<proc, fileBacked, schedule, now, results, cache, disk, req, applied, removals>>

\* --------------------------------------------------------------- Job.Run
\* mutant: the error of makeResult is not looked at
AfterMakeResult_Ignored(failed) == "stamp"

\* Run after makeResult returned: if err != nil
AfterMakeResult(failed) == IF failed THEN "fail" ELSE "stamp"

\* mutant: the temp file is created under a name that may be taken
FreshNames_Any == FileNames

\* os.CreateTemp("", "ellycache"): a name no file of the directory has, or
\* an error
FreshNames == {f \in FileNames : disk[f] = NoFile}

\* makeResult, file-backed: create the temp file
CreateTemp(t) ==
  /\ job[t].pc = "make"
  /\ FileBacked(job[t].ep)
  /\ \/ \E f \in FreshNames :
          /\ disk' = [disk EXCEPT ![f] = <<>>]
          /\ job' = [job EXCEPT ![t].pc = "query", ![t].file = f]
     \/ /\ job' = [job EXCEPT ![t].pc = AfterMakeResult(TRUE), ![t].err = TRUE]
        /\ UNCHANGED disk
  /\ UNCHANGED <<proc, fileBacked, schedule, now, nextFire, ntrig, results, cache, req, applied, removals>>

\* query(): the bytes written to w when the query fails at step failAt:
\* 0 is pool.Query, k is rows.Values or json.Marshal of row k, Len+1 is
\* rows.Err (a timeout); Len+2 is no failure.
QueryFails(rows, failAt) == failAt <= Len(rows) + 1

QueryWritten(rows, failAt) ==
  IF failAt = 0 THEN <<>>
  ELSE IF failAt <= Len(rows) THEN WrittenRows(rows, failAt - 1)
  ELSE IF failAt = Len(rows) + 1 THEN WrittenRows(rows, Len(rows))
  ELSE Serialize(rows)

\* mutant: the buffered output is kept in the result of a file-backed endpoint
NewResult_BothSet(e, h, buf, f) ==
  [NilResult EXCEPT !.ETag = MakeETag(h), !.Result = buf, !.File = f]

\* mutant: the validator is taken over the file name as well as the rows
NewResult_NameInTag(e, h, buf, f) ==
  IF FileBacked(e)
  THEN [NilResult EXCEPT !.ETag = MakeETag(<<h, f>>), !.File = f]
  ELSE [NilResult EXCEPT !.ETag = MakeETag(h), !.Result = buf]

\* the EndpointResult makeResult returns
NewResult(e, h, buf, f) ==
  IF FileBacked(e)
  THEN [NilResult EXCEPT !.ETag = MakeETag(h), !.File = f]
  ELSE [NilResult EXCEPT !.ETag = MakeETag(h), !.Result = buf]

\* makeResult's deferred w.Close() and f.Close(): the bytes query() wrote
\* are encrypted and written to the file in one piece; a failed write leaves
\* a truncated file, and neither error is looked at.  (The failed write is
\* modelled where the file goes on to be published; the file of a failed
\* query is referenced by nothing, whatever it holds.)
ClosedFile(buf, failed) ==
  IF failed THEN {Encrypt(buf)} ELSE {Encrypt(buf), Truncated}

\* makeResult from query() on: the query runs into the buffer or into the
\* encrypting writer, the result is built, the deferred closes run
Query(t) ==
  /\ \/ job[t].pc = "query"
     \/ job[t].pc = "make" /\ ~FileBacked(job[t].ep)
  /\ \E rows \in QueryResults, failAt \in 0..(MaxRows + 2) :
       /\ failAt <= Len(rows) + 2
       /\ LET e == job[t].ep
              buf == QueryWritten(rows, failAt)
              failed == QueryFails(rows, failAt)
          IN /\ job' = [job EXCEPT ![t].pc = AfterMakeResult(failed),
                                   ![t].err = failed,
                                   ![t].rows = IF failed THEN <<>> ELSE rows]
             /\ results' = IF failed THEN results
                           ELSE [results EXCEPT
                                   ![t] = NewResult(e, Digest(rows), buf, job[t].file)]
             /\ IF FileBacked(e)
                THEN \E written \in ClosedFile(buf, failed) :
                       disk' = [disk EXCEPT ![job[t].file] = written]
                ELSE UNCHANGED disk
  /\ UNCHANGED <<proc, fileBacked, schedule, now, nextFire, ntrig, cache, req, applied, removals>>

\* mutant: QueriedAt is left to be set after the swap
Stamped_NoQueriedAt(res, t, next) == [res EXCEPT !.CacheControl = MaxAge(next, t)]

\* newResult.QueriedAt = ..., newResult.CacheControl = ...
Stamped(res, t, next) ==
  [res EXCEPT !.QueriedAt = FormatTime(t), !.CacheControl = MaxAge(next, t)]

Stamp(t) ==
  /\ job[t].pc = "stamp"
  /\ results' = [results EXCEPT ![t] = Stamped(results[t], now, nextFire[job[t].ep])]
  /\ job' = [job EXCEPT ![t].pc = "swap"]
  /\ UNCHANGED <<proc, fileBacked, schedule, now, nextFire, ntrig, cache, disk, req, applied, removals>>

\* cleanOld has something to delete
HasFile(p) == p # 0 /\ results[p].File # 0

\* the position after Swap or LoadAndDelete returned old
AfterDisplace(old) == IF HasFile(old) THEN "clean" ELSE "done"

\* oldResult, loaded := cache.Swap(j.endpoint.Path, newResult)
Swap(t) ==
  /\ job[t].pc = "swap"
  /\ LET e == job[t].ep
         old == cache[e]
     IN /\ cache' = [cache EXCEPT ![e] = t]
        /\ applied' = [applied EXCEPT ![e] = Append(@, t)]
        /\ job' = [job EXCEPT ![t].pc = AfterDisplace(old), ![t].old = old]
  /\ UNCHANGED <<proc, fileBacked, schedule, now, nextFire, ntrig, results, disk, req, removals>>

\* mutant: cache.Load in place of cache.LoadAndDelete
AfterFailure_Kept(old) == old

\* the key after a failed makeResult
AfterFailure(old) == 0

\* oldResult, loaded := cache.LoadAndDelete(j.endpoint.Path)
LoadAndDelete(t) ==
  /\ job[t].pc = "fail"
  /\ LET e == job[t].ep
         old == cache[e]
     IN /\ cache' = [cache EXCEPT ![e] = AfterFailure(old)]
        /\ applied' = [applied EXCEPT ![e] = Append(@, t)]
        /\ job' = [job EXCEPT ![t].pc = AfterDisplace(old), ![t].old = old]
  /\ UNCHANGED <<proc, fileBacked, schedule, now, nextFire, ntrig, results, disk, req, removals>>

\* os.Remove(name): the directory afterwards (an absent file is an error,
\* which cleanOld logs)
Remove(d, f) == [d EXCEPT ![f] = NoFile]

\* mutant: cleanOld waits until no handler is reading the old result
MayRemove_WhenUnread(p) ==
  \A r \in Reqs : ~(req[r].result = p /\ req[r].pc \in {"open", "copy"})

\* cleanOld calls os.Remove at once, whoever holds the old result
MayRemove(p) == TRUE

\* mutant: an error of os.Remove fails the run
AfterRemove_Fatal(failed) == IF failed THEN "fail" ELSE "done"

\* cleanOld logs the error of os.Remove and returns
AfterRemove(failed) == "done"

\* cleanOld(or), for an old result that has a file
CleanOld(t) ==
  /\ job[t].pc = "clean"
  /\ MayRemove(job[t].old)
  /\ disk' = Remove(disk, results[job[t].old].File)
  /\ removals' = [removals EXCEPT ![job[t].old] =
                    IF disk[results[job[t].old].File] = NoFile THEN @ ELSE @ + 1]
  /\ job' = [job EXCEPT ![t].pc = AfterRemove(disk[results[job[t].old].File] = NoFile)]
  /\ UNCHANGED <<proc, fileBacked, schedule, now, nextFire, ntrig, results, cache, req, applied>>

\* ----------------------------------------------------------- httpHandler
\* a request path that is no endpoint's path
OtherPath == "/x"

\* the paths clients ask for
Urls == Endpoints \cup {OtherPath}

\* mux.HandleFunc("GET "+e.Path, httpHandler): a pattern matches the paths
\* equal to it, and the pattern "/" matches every path
Matches(pattern, url) == pattern = url \/ pattern = "/"

\* the endpoint whose pattern the mux picks for url, the most specific of
\* those that match ("" when none does and the mux answers itself)
NoRoute == ""

Route(url) ==
  IF url \in Endpoints THEN url
  ELSE IF \E e \in Endpoints : Matches(e, url)
  THEN CHOOSE e \in Endpoints : Matches(e, url)
  ELSE NoRoute

\* cache.Load(r.URL.Path): the key is the path of the request
Load(url) == IF url \in DOMAIN cache THEN cache[url] ELSE 0

\* the If-None-Match values a client sends: none, or an ETag it was given
\* for the url
Validators(url) ==
  {<<>>} \cup (IF url \in Endpoints
              THEN {results[applied[url][i]].ETag : i \in 1..Len(applied[url])}
              ELSE {})

\* http.Error(w, msg, code) and http.NotFound: the status line goes out with
\* the headers set so far, unless a status line has gone out already
HttpError(resp, code) ==
  IF resp.status # 0 THEN resp
  ELSE [resp EXCEPT !.status = code, !.ContentType = <<"text/plain; charset=utf-8">>]

\* sethdr()
SetHdr(resp, res) ==
  [resp EXCEPT !.ETag = res.ETag, !.LastModified = res.QueriedAt,
               !.CacheControl = res.CacheControl]

\* mutant: the validator check is missing
ETagMatches_Never(inm, res) == FALSE

\* r.Header.Get("If-None-Match") == result.ETag
ETagMatches(inm, res) == inm = res.ETag

\* the 404 of an absent key
NotFound(resp) ==
  HttpError([resp EXCEPT !.CacheControl = NoCache, !.code = 404], 404)

\* the 304 of a matching validator
NotModified(resp, res) ==
  [SetHdr([resp EXCEPT !.code = 304], res) EXCEPT !.status = 304]

\* the 200 served from memory
FromMemory(resp, res) ==
  [SetHdr([resp EXCEPT !.ContentType = <<"application/json">>], res)
     EXCEPT !.status = 200, !.body = res.Result]

\* the 500 of a file that cannot be opened or decrypted
StorageFault(resp) ==
  HttpError([resp EXCEPT !.CacheControl = NoCache, !.code = 500], 500)

\* a request for url arrives with If-None-Match inm: code := 200, cache.Load,
\* the validator check and the response from memory
ReqLoad(r, url, inm) ==
  /\ req[r].pc \in {"idle", "done"}
  /\ Route(url) # NoRoute
  /\ LET p == Load(url)
         res == results[p]
         resp == [NoResponse EXCEPT !.code = 200]
         start == [IdleReq EXCEPT !.url = url, !.inm = inm]
     IN req' = [req EXCEPT ![r] =
          IF p = 0
          THEN [start EXCEPT !.pc = "done", !.resp = NotFound(resp)]
          ELSE IF ETagMatches(inm, res)
          THEN [start EXCEPT !.pc = "done", !.result = p, !.resp = NotModified(resp, res)]
          ELSE IF res.File = 0
          THEN [start EXCEPT !.pc = "done", !.result = p, !.resp = FromMemory(resp, res)]
          ELSE [start EXCEPT !.pc = "open", !.result = p, !.resp = resp]]
  /\ UNCHANGED <<proc, fileBacked, schedule, now, nextFire, ntrig, job, results, cache, disk, applied, removals>>

\* mutant: the handler drops the entry whose file it could not read
CacheAfterFault_Dropped(c, key) == [c EXCEPT ![key] = 0]

\* the error paths of the handler answer 500 and return: the key keeps the
\* entry it has
CacheAfterFault(c, key) == c

\* os.Open(result.File), then symmecrypt.NewReader, which reads the whole
\* file and decrypts it
ReqOpen(r) ==
  /\ req[r].pc = "open"
  /\ LET content == disk[results[req[r].result].File]
     IN /\ req' = [req EXCEPT ![r] =
             IF content = NoFile
             THEN [@ EXCEPT !.pc = "done", !.fault = "open",
                            !.resp = StorageFault(req[r].resp)]
             ELSE IF ~CanDecrypt(content)
             THEN [@ EXCEPT !.pc = "done", !.fault = "decrypt",
                            !.resp = StorageFault(req[r].resp)]
             ELSE [@ EXCEPT !.pc = "copy", !.plain = Decrypt(content)]]
        /\ cache' = IF content = NoFile \/ ~CanDecrypt(content)
                    THEN CacheAfterFault(cache, req[r].url)
                    ELSE cache
  /\ UNCHANGED <<proc, fileBacked, schedule, now, nextFire, ntrig, job, results, disk, applied, removals>>

\* the first w.Write of io.Copy sends the status line and the headers
CopyStarted(resp, res) ==
  [SetHdr([resp EXCEPT !.ContentType = <<"application/json">>], res)
     EXCEPT !.status = 200]

\* io.Copy failed: the handler's answer
CopyFailed(resp) == HttpError([resp EXCEPT !.code = 500], 500)

\* sethdr and io.Copy(w, fr): all of the content, or an error after n bytes
ReqCopy(r) ==
  /\ req[r].pc = "copy"
  /\ LET res == results[req[r].result]
         started == CopyStarted(req[r].resp, res)
         plain == req[r].plain
     IN \/ req' = [req EXCEPT ![r].pc = "done", ![r].plain = <<>>,
                              ![r].resp = [started EXCEPT !.body = plain]]
        \/ \E n \in 0..(Len(plain) - 1) :
             req' = [req EXCEPT ![r].pc = "done", ![r].plain = <<>>, ![r].fault = "copy",
                                ![r].resp = CopyFailed([started EXCEPT
                                              !.body = SubSeq(plain, 1, n)])]
  /\ UNCHANGED <<proc, fileBacked, schedule, now, nextFire, ntrig, job, results, cache, disk, applied, removals>>

\* ------------------------------------------------------ the specification
Next ==
  \/ Tick
  \/ \E e \in Endpoints : Trigger(e)
  \/ \E t \in Runs : CreateTemp(t)
  \/ \E t \in Runs : Query(t)
  \/ \E t \in Runs : Stamp(t)
  \/ \E t \in Runs : Swap(t)
  \/ \E t \in Runs : LoadAndDelete(t)
  \/ \E t \in Runs : CleanOld(t)
  \/ \E r \in Reqs, url \in Urls : \E inm \in Validators(url) : ReqLoad(r, url, inm)
  \/ \E r \in Reqs : ReqOpen(r)
  \/ \E r \in Reqs : ReqCopy(r)

Spec == Init /\ [][Next]_vars

\* ============================================================ properties
Succeeded(t) == job[t].pc \in {"stamp", "swap", "clean", "done"} /\ ~job[t].err

Running(t) == job[t].pc \notin {"idle", "done"}

\* the runs that have published an entry for e
Published(e) == {t \in Runs : \E i \in 1..Len(applied[e]) : applied[e][i] = t /\ ~job[t].err}

IsPrefix(s, t) == Len(s) <= Len(t) /\ s = SubSeq(t, 1, Len(s))

\* the serialized result run p produced, which its entry stands for
EntryBody(p) == Serialize(job[p].rows)

Finished(r) == req[r].pc = "done"

\* C1: when a refresh that failed while an entry was published finishes, the
\* cache holds no entry for the path and the file of the entry it removed
\* is deleted (so that a GET loading the key then is answered 404).
C1_FailedRefreshLeavesKeyAbsent ==
  [][\A t \in Runs :
       (job[t].pc # "done" /\ job'[t].pc = "done" /\ job'[t].err /\ job'[t].old # 0)
         => /\ cache'[job'[t].ep] = 0
            /\ HasFile(job'[t].old) => disk'[results[job'[t].old].File] = NoFile]_vars

\* C2: while no refresh of an endpoint has succeeded, the cache holds no
\* entry for its path and every GET on the path has been answered 404.
C2_NoEntryBeforeSuccess ==
  \A e \in Endpoints :
    (\A t \in Runs : job[t].ep = e => ~Succeeded(t))
      => /\ cache[e] = 0
         /\ \A r \in Reqs : (req[r].url = e /\ req[r].pc # "idle")
              => /\ Finished(r)
                 /\ req[r].result = 0
                 /\ req[r].resp.code = 404
                 /\ req[r].resp.status = 404

C2_Witness ==
  \E e \in Endpoints, t \in Runs, r \in Reqs :
    /\ job[t].ep = e /\ job[t].pc = "done" /\ job[t].err
    /\ \A u \in Runs : job[u].ep = e => ~Succeeded(u)
    /\ req[r].url = e /\ Finished(r) /\ req[r].resp.status = 404

\* C3: every entry a request holds was published by a refresh of its key
\* with ETag, QueriedAt, CacheControl and payload or file all set, and no
\* field of a published entry ever changes.
Complete(res) ==
  /\ res.ETag # <<>>
  /\ res.QueriedAt # <<>>
  /\ res.CacheControl # <<>>
  /\ res.Result # <<>> \/ res.File # 0

C3_LoadedEntriesWhole ==
  \A r \in Reqs : req[r].result # 0
    => /\ req[r].result \in Published(req[r].url)
       /\ Complete(results[req[r].result])

C3_PublishedEntriesFrozen ==
  \A e \in Endpoints : \A p \in Published(e) : results'[p] = results[p]

C3_EntriesPublishedWholeAndImmutable ==
  [](C3_LoadedEntriesWhole) /\ [][C3_PublishedEntriesFrozen]_vars

C3_Witness ==
  \E r \in Reqs :
    /\ req[r].pc \in {"open", "copy"}
    /\ cache[req[r].url] \notin {0, req[r].result}

\* C4: a request that loaded a file-backed entry never finds the entry's
\* file deleted when it opens it.
C4_LoadedFileNeverGone ==
  \A r \in Reqs : (req[r].result # 0 /\ HasFile(req[r].result)) => req[r].fault # "open"

\* C5: runs of one endpoint never overlap, and they hit the cache in the
\* order of their triggers.
C5_RunsSerializedInTriggerOrder ==
  /\ \A t, u \in Runs : (t < u /\ job[t].ep = job[u].ep /\ Running(t)) => ~Running(u)
  /\ \A e \in Endpoints : \A i, k \in 1..Len(applied[e]) :
       i < k => applied[e][i] < applied[e][k]

\* C6: the file of a displaced entry is deleted at most once, by the one run
\* the swap or the remove returned the entry to, and only once the entry is
\* out of the cache.
C6_DisplacedFileDeletedOnce ==
  \A p \in Runs :
    LET takers == {t \in Runs : job[t].old = p}
    IN /\ Cardinality(takers) <= 1
       /\ removals[p] <= 1
       /\ \A t \in takers :
            /\ cache[job[p].ep] # p
            /\ job[t].pc = "clean" => (removals[p] = 0 /\ disk[results[p].File] # NoFile)
       /\ removals[p] = 1 => \E t \in takers : job[t].pc = "done"

C6_Witness ==
  \E p \in Runs, t \in Runs :
    removals[p] = 1 /\ job[t].old = p /\ job[t].pc = "done" /\ cache[job[p].ep] = t

\* C7: a GET that loads entry e with If-None-Match equal to e's ETag is
\* answered 304 with e's ETag, Last-Modified and Cache-Control and no body,
\* whatever e's storage mode and the state of its file.
C7_MatchingValidatorGets304 ==
  \A r \in Reqs :
    (req[r].result # 0 /\ req[r].inm = results[req[r].result].ETag)
      => /\ Finished(r)
         /\ req[r].resp.code = 304
         /\ req[r].resp.status = 304
         /\ req[r].resp.ETag = results[req[r].result].ETag
         /\ req[r].resp.LastModified = results[req[r].result].QueriedAt
         /\ req[r].resp.CacheControl = results[req[r].result].CacheControl
         /\ req[r].resp.body = <<>>

C7_Witness ==
  \E r \in Reqs :
    /\ Finished(r) /\ req[r].resp.status = 304
    /\ HasFile(req[r].result)
    /\ disk[results[req[r].result].File] = Truncated

\* C8: when two successful refreshes that follow each other at a key return
\* the same rows, the second publishes an entry of its own with the ETag of
\* the first, the file of the first is deleted by the end of the second run,
\* and a GET that loads the second entry with the first ETag is answered 304.
C8_IdenticalRefreshKeepsETag ==
  \A e \in Endpoints : \A i \in 1..(Len(applied[e]) - 1) :
    LET p == applied[e][i]
        q == applied[e][i + 1]
    IN (~job[p].err /\ ~job[q].err /\ job[p].rows = job[q].rows)
         => /\ q # p
            /\ job[q].old = p
            /\ results[q].ETag = results[p].ETag
            /\ (job[q].pc = "done" /\ HasFile(p)) => removals[p] = 1
            /\ \A r \in Reqs :
                 (req[r].result = q /\ req[r].inm = results[p].ETag)
                   => req[r].resp.status = 304

C8_Witness ==
  \E e \in Endpoints : \E i \in 1..(Len(applied[e]) - 1) : \E r \in Reqs :
    LET p == applied[e][i]
        q == applied[e][i + 1]
    IN /\ ~job[p].err /\ ~job[q].err /\ job[p].rows = job[q].rows
       /\ HasFile(p) /\ job[q].pc = "done" /\ removals[p] = 1
       /\ req[r].result = q /\ req[r].inm = results[p].ETag /\ Finished(r)

\* C9: a 200 response carries the ETag, Last-Modified and Cache-Control
\* (max-age, immutable) of the entry the request loaded, Content-Type
\* application/json, and that entry's body.
C9_OkResponseFromOneEntry ==
  \A r \in Reqs :
    (Finished(r) /\ req[r].resp.status = 200)
      => LET p == req[r].result
         IN /\ p # 0
            /\ req[r].resp.ETag = results[p].ETag
            /\ req[r].resp.LastModified = results[p].QueriedAt
            /\ req[r].resp.CacheControl = results[p].CacheControl
            /\ req[r].resp.CacheControl[1] = "max-age"
            /\ req[r].resp.ContentType = <<"application/json">>
            /\ IsPrefix(req[r].resp.body, EntryBody(p))
            /\ req[r].fault = "none" => req[r].resp.body = EntryBody(p)

\* C10: a response the handler ends with 404 or 500 carries Cache-Control
\* no-cache, no-store.
C10_ErrorsNotCacheable ==
  \A r \in Reqs :
    (Finished(r) /\ req[r].resp.code \in {404, 500})
      => req[r].resp.CacheControl = NoCache

\* C11: when a refresh that failed after creating its temporary file
\* finishes, the temporary file is deleted, and no published entry names the
\* file of a failed refresh.
C11_FailedRefreshDiscardsTempFile ==
  [][\A t \in Runs :
       (job[t].pc # "done" /\ job'[t].pc = "done" /\ job'[t].err /\ job'[t].file # 0)
         => /\ disk'[job'[t].file] = NoFile
            /\ \A e \in Endpoints : cache'[e] # 0 => results'[cache'[e]].File # job'[t].file]_vars

\* C12: the file of every file-backed entry in the cache holds the complete
\* encrypted serialization of the rows of the refresh that published it: a
\* refresh whose write or close failed publishes nothing.
C12_PublishedFileWrittenWhole ==
  \A e \in Endpoints :
    HasFile(cache[e])
      => disk[results[cache[e]].File] = Encrypt(EntryBody(cache[e]))

\* a step of run t
RunStep(t) == job[t].pc # "idle" /\ job'[t] # job[t]

\* the step leaves the entry of endpoint b and that entry's file as they are
EntryUntouched(b) ==
  /\ cache'[b] = cache[b]
  /\ HasFile(cache[b])
       => disk'[results[cache[b]].File] = disk[results[cache[b]].File]

\* the step leaves what the requests on endpoint b are about to read as it is
RequestsUntouched(b) ==
  \A r \in Reqs :
    (Route(req[r].url) = b /\ req[r].pc = "open")
      => disk'[results[req[r].result].File] = disk[results[req[r].result].File]

\* C13: a step of a refresh run of endpoint A changes neither the cache
\* entry nor the backing file of another endpoint B, nor what a request on
\* B in progress is answered with.
C13_OtherEndpointsUnaffected ==
  [][\A t \in Runs : RunStep(t)
       => \A b \in Endpoints \ {job[t].ep} :
            EntryUntouched(b) /\ RequestsUntouched(b)]_vars

\* the successful runs of e that hit the cache after a failed run of e had
\* removed an entry
Recovered(e) ==
  {applied[e][k] : k \in {n \in 1..Len(applied[e]) :
      /\ ~job[applied[e][n]].err
      /\ \E i \in 1..(n - 1) : job[applied[e][i]].err /\ job[applied[e][i]].old # 0}}

\* C14: once a refresh succeeds after a failed refresh removed the entry of
\* its endpoint, every GET that loads the new entry is answered 200, or 304
\* when its validator matches.
C14_ServedAgainAfterRecovery ==
  \A e \in Endpoints : \A q \in Recovered(e) : \A r \in Reqs :
    (Finished(r) /\ req[r].result = q)
      => /\ req[r].resp.status \in {200, 304}
         /\ req[r].inm = results[q].ETag => req[r].resp.status = 304

\* ------------------------------------------------- cron running late
\* seconds cron's run loop can be behind the clock when it handles a firing
\* that is due (a busy or suspended process, a step of the wall clock)
LagBound == 1

\* the clock advances while a firing is due and not handled yet
LateTick ==
  /\ now < MaxTime
  /\ \E e \in Endpoints : Due(e)
  /\ \A e \in Endpoints : nextFire[e] + LagBound > now
  /\ now' = now + 1
  /\ UNCHANGED <<proc, fileBacked, schedule, nextFire, ntrig, job, results, cache, disk, req, applied, removals>>

\* the in-memory configurations, under which the steps on files never happen
InitLag == Init /\ \A e \in Endpoints : ~fileBacked[e]

NextLag ==
  \/ Tick
  \/ LateTick
  \/ \E e \in Endpoints : Trigger(e)
  \/ \E t \in Runs : Query(t)
  \/ \E t \in Runs : Stamp(t)
  \/ \E t \in Runs : Swap(t)
  \/ \E t \in Runs : LoadAndDelete(t)
  \/ \E r \in Reqs, url \in Urls : \E inm \in Validators(url) : ReqLoad(r, url, inm)

SpecLag == InitLag /\ [][NextLag]_vars

\* the freshness window the entry should carry
FreshnessWindow(next, t) == IF next > t THEN next - t ELSE 0

\* C15: the max-age a refresh puts into its entry is the number of seconds
\* until the next firing of its endpoint, and 0 when that time is not in the
\* future.
C15_MaxAgeNeverNegative ==
  [][\A t \in Runs :
       (job[t].pc = "stamp" /\ job'[t].pc = "swap")
         => results'[t].CacheControl =
              <<"max-age", FreshnessWindow(nextFire[job[t].ep], now), "immutable">>]_vars

\* the step in which handler r takes a request and loads the key
LoadStep(r) == req[r].pc \in {"idle", "done"} /\ req'[r] # req[r]

\* C16: a GET the mux routes to the handler of an endpoint is answered 404
\* only when the cache holds no entry for that endpoint.
C16_NotFoundOnlyWithoutEntry ==
  [][\A r \in Reqs :
       (LoadStep(r) /\ req'[r].resp.status = 404)
         => cache[Route(req'[r].url)] = 0]_vars

\* what a successful query() of run p wrote to its writer: the bytes an
\* in-memory endpoint stores as Result
WrittenBy(p) == QueryWritten(job[p].rows, Len(job[p].rows) + 2)

\* C17: the body of a complete 200 response served from the file of an entry
\* is the bytes the refresh that built the entry wrote through the encrypting
\* writer, which are the bytes an in-memory endpoint stores for the same rows.
C17_FileBodyIsWhatWasWritten ==
  \A r \in Reqs :
    (Finished(r) /\ req[r].resp.status = 200 /\ req[r].fault = "none"
       /\ HasFile(req[r].result))
      => /\ Decrypt(Encrypt(WrittenBy(req[r].result))) = WrittenBy(req[r].result)
         /\ req[r].resp.body = WrittenBy(req[r].result)

\* C18: an entry built for a file-backed endpoint has a File and no Result,
\* one built for an in-memory endpoint has a Result and no File, and a
\* handler goes to the file exactly for the entries that have a File.
C18_PayloadOrFile ==
  /\ \A t \in Runs : Succeeded(t)
       => IF FileBacked(job[t].ep)
          THEN results[t].File # 0 /\ results[t].Result = <<>>
          ELSE results[t].File = 0 /\ results[t].Result # <<>>
  /\ \A r \in Reqs : req[r].result # 0
       => LET res == results[req[r].result]
          IN /\ (req[r].pc \in {"open", "copy"} \/ req[r].fault # "none") => res.File # 0
             /\ (Finished(r) /\ req[r].resp.status = 200 /\ res.File = 0)
                  => req[r].resp.body = res.Result
             /\ (req[r].inm # res.ETag /\ res.File # 0)
                  => \/ req[r].pc \in {"open", "copy"}
                     \/ req[r].fault # "none"
                     \/ req[r].resp.status = 200

C18_Witness ==
  \E p, q \in Runs, r \in Reqs :
    /\ Succeeded(p) /\ results[p].File # 0
    /\ Succeeded(q) /\ results[q].File = 0
    /\ req[r].result = q /\ Finished(r) /\ req[r].resp.status = 200

\* ------------------------------------------- files that go away on their own
\* something outside the process (a cleaner of the temp directory) deletes
\* the file of an entry in the cache: the os.Remove that comes later fails,
\* the os.Open as well
Vanish(f) ==
  /\ disk[f] # NoFile
  /\ \E e \in Endpoints : HasFile(cache[e]) /\ results[cache[e]].File = f
  /\ disk' = Remove(disk, f)
  /\ UNCHANGED <<proc, fileBacked, schedule, now, nextFire, ntrig, job, results, cache, req, applied, removals>>

\* the configurations with one file-backed endpoint firing
InitGone ==
  /\ Init
  /\ fileBacked[EndpointList[1]]
  /\ \A e \in Endpoints \ {EndpointList[1]} : schedule[e] = "later"

\* the refresh side on its own, while no request arrives
NextGone ==
  \/ Tick
  \/ \E e \in Endpoints : Trigger(e)
  \/ \E t \in Runs : CreateTemp(t)
  \/ \E t \in Runs : Query(t)
  \/ \E t \in Runs : Stamp(t)
  \/ \E t \in Runs : Swap(t)
  \/ \E t \in Runs : LoadAndDelete(t)
  \/ \E t \in Runs : CleanOld(t)
  \/ \E f \in FileNames : Vanish(f)

SpecGone == InitGone /\ [][NextGone]_vars

\* the os.Remove of cleanOld in run t fails in this step
RemoveFails(t) ==
  /\ job[t].pc = "clean"
  /\ job'[t] # job[t]
  /\ disk[results[job[t].old].File] = NoFile

\* C19: when the os.Remove of a displaced entry's file fails, the run ends
\* there with the cache as its swap or its remove left it, and a run that
\* has ended does nothing more.
C19_RemoveFailureTolerated ==
  [][\A t \in Runs :
       /\ RemoveFails(t)
            => /\ job'[t].pc = "done"
               /\ job'[t].err = job[t].err
               /\ cache' = cache
               /\ disk' = disk
       /\ job[t].pc = "done" => job'[t] = job[t]]_vars

\* a successful run and then a failed run have both found the file of the
\* entry they displaced gone, and the key is absent as the failed run left it
C19_Witness ==
  \E t, u \in Runs :
    /\ job[t].pc = "done" /\ ~job[t].err
    /\ HasFile(job[t].old) /\ removals[job[t].old] = 0
    /\ job[u].pc = "done" /\ job[u].err /\ job[u].old = t
    /\ removals[t] = 0
    /\ cache[job[u].ep] = 0

\* the steps handler r has left before its response is complete
ReqRank(r) ==
  CASE req[r].pc = "open" -> 2
    [] req[r].pc = "copy" -> 1
    [] OTHER -> 0

\* the steps run t has left before it returns
RunRank(t) ==
  CASE job[t].pc = "make" -> 5
    [] job[t].pc = "query" -> 4
    [] job[t].pc \in {"stamp", "fail"} -> 3
    [] job[t].pc = "swap" -> 2
    [] job[t].pc = "clean" -> 1
    [] OTHER -> 0

\* the next step of every handler and of every run in progress can be taken
NobodyWaits ==
  /\ \A r \in Reqs :
       /\ req[r].pc = "open" => ENABLED ReqOpen(r)
       /\ req[r].pc = "copy" => ENABLED ReqCopy(r)
  /\ \A t \in Runs :
       /\ job[t].pc = "make" => ENABLED (CreateTemp(t) \/ Query(t))
       /\ job[t].pc = "query" => ENABLED Query(t)
       /\ job[t].pc = "stamp" => ENABLED Stamp(t)
       /\ job[t].pc = "swap" => ENABLED Swap(t)
       /\ job[t].pc = "fail" => ENABLED LoadAndDelete(t)
       /\ job[t].pc = "clean" => ENABLED CleanOld(t)

\* every step of a handler or of a run brings it nearer to its end
StepsCount ==
  /\ \A r \in Reqs :
       (req[r].pc \in {"open", "copy"} /\ req'[r] # req[r])
         => ReqRank(r)' < ReqRank(r)
  /\ \A t \in Runs : RunStep(t) => RunRank(t)' < RunRank(t)

\* C20: a handler in progress can always take its next step and ends after
\* at most three of them, wherever the runs are; a run in progress can
\* always take its next step and reaches its swap or remove after at most
\* three of them, wherever the handlers are.
C20_NoWaiting == [](NobodyWaits) /\ [][StepsCount]_vars

\* a handler is about to open the file of an entry while the run that
\* displaced the entry is about to remove that file and a further run of the
\* key is in its query
C20_Witness ==
  \E r \in Reqs, t, u \in Runs :
    /\ req[r].pc = "open"
    /\ job[t].pc = "clean" /\ job[t].old = req[r].result
    /\ job[u].pc \in {"make", "query"} /\ job[u].ep = Route(req[r].url)

\* ---------------------------------------------------- the end of the process
\* srv.ListenAndServe() has returned an error: realmain returns through its
\* deferred calls, of which crond.Stop() lets no further firing start
ServerFails ==
  /\ proc = "up"
  /\ proc' = "stopping"
  /\ UNCHANGED <<fileBacked, schedule, now, nextFire, ntrig, job, results, cache, disk, req, applied, removals>>

\* <-ctx.Done(): the runs in progress have returned; pool.Close() and
\* os.Exit follow, and neither they nor anything before them removes a file
Exit ==
  /\ proc = "stopping"
  /\ \A t \in Runs : ~Running(t)
  /\ proc' = "exited"
  /\ UNCHANGED <<fileBacked, schedule, now, nextFire, ntrig, job, results, cache, disk, req, applied, removals>>

\* SIGINT or SIGTERM, for which the program installs no handler: the process
\* ends where it is, its runs with it
Kill ==
  /\ proc \in {"up", "stopping"}
  /\ proc' = "exited"
  /\ UNCHANGED <<fileBacked, schedule, now, nextFire, ntrig, job, results, cache, disk, req, applied, removals>>

\* the refresh side of a process that ends: cron fires while the process is
\* up (for which time the clock is modelled), the runs go on until it exits
NextStop ==
  \/ proc = "up" /\ Tick
  \/ proc = "up" /\ \E e \in Endpoints : Trigger(e)
  \/ proc # "exited" /\ \E t \in Runs : CreateTemp(t)
  \/ proc # "exited" /\ \E t \in Runs : Query(t)
  \/ proc # "exited" /\ \E t \in Runs : Stamp(t)
  \/ proc # "exited" /\ \E t \in Runs : Swap(t)
  \/ proc # "exited" /\ \E t \in Runs : LoadAndDelete(t)
  \/ proc # "exited" /\ \E t \in Runs : CleanOld(t)
  \/ ServerFails
  \/ Exit
  \/ Kill

SpecStop == InitGone /\ [][NextStop]_vars

\* C21: once the process has shut down, the file of every entry that was
\* published at that moment is deleted.
C21_ShutdownDeletesPublishedFiles ==
  proc = "exited"
    => \A e \in Endpoints :
         HasFile(cache[e]) => disk[results[cache[e]].File] = NoFile

\* ------------------------------------------------ runs that do not overlap
\* a firing whose job has no earlier run still in progress (every query is
\* over before the next firing of its schedule)
TriggerSerial(e) ==
  /\ \A t \in Runs : job[t].ep = e => ~Running(t)
  /\ Trigger(e)

NextSerial ==
  \/ Tick
  \/ \E e \in Endpoints : TriggerSerial(e)
  \/ \E t \in Runs : CreateTemp(t)
  \/ \E t \in Runs : Query(t)
  \/ \E t \in Runs : Stamp(t)
  \/ \E t \in Runs : Swap(t)
  \/ \E t \in Runs : LoadAndDelete(t)
  \/ \E t \in Runs : CleanOld(t)
  \/ \E r \in Reqs, url \in Urls : \E inm \in Validators(url) : ReqLoad(r, url, inm)
  \/ \E r \in Reqs : ReqOpen(r)
  \/ \E r \in Reqs : ReqCopy(r)

SpecSerial == Init /\ [][NextSerial]_vars

\* the paths whose entry in the cache has the file f
CachedWithFile(f) ==
  {e \in Endpoints : HasFile(cache[e]) /\ results[cache[e]].File = f}

C22_CachedFilesExist ==
  \A e \in Endpoints : HasFile(cache[e]) => disk[results[cache[e]].File] # NoFile

C22_DeletedOnlyOnceDisplaced ==
  \A f \in FileNames :
    (disk[f] # NoFile /\ disk'[f] = NoFile)
      => /\ CachedWithFile(f) = {}
         /\ CachedWithFile(f)' = {}

\* C22: while the runs of an endpoint do not overlap and only the program
\* deletes files, the file of every file-backed entry in the cache is on
\* disk, and a file is deleted only when no entry in the cache references it.
C22_PublishedFilesOnDisk ==
  [](C22_CachedFilesExist) /\ [][C22_DeletedOnlyOnceDisplaced]_vars

\* a run has displaced a file-backed entry and deleted its file, and the
\* entry it published has its own file on disk
C22_Witness ==
  \E t, u \in Runs :
    /\ job[u].pc = "done" /\ job[u].old = t
    /\ HasFile(t) /\ removals[t] = 1 /\ disk[results[t].File] = NoFile
    /\ cache[job[u].ep] = u /\ HasFile(u)
    /\ disk[results[u].File] # NoFile

\* handler r takes a step: the request arrives, the file is opened, the
\* content is copied out
HandlerStep(r) == req'[r] # req[r]

\* C23: no step of a handler changes the cache, an entry or a file, whatever
\* it answers; an entry whose file cannot be opened or decrypted stays in the
\* cache when the handler has answered 500.
C23_ServingChangesNothing ==
  [][\A r \in Reqs : HandlerStep(r)
       => /\ cache' = cache
          /\ disk' = disk
          /\ results' = results
          /\ job' = job
          /\ removals' = removals]_vars

\* a handler has answered 500 for an entry whose file does not decrypt, and
\* the entry is in the cache still, its file as it was
C23_Witness ==
  \E r \in Reqs :
    /\ Finished(r) /\ req[r].fault = "decrypt" /\ req[r].resp.status = 500
    /\ cache[req[r].url] = req[r].result
    /\ disk[results[req[r].result].File] = Truncated

====
